---- MODULE Spec2Model ----
(***************************************************************************)
(* Model of src/modbus/modbus_manager.py (ModbusConnection, ModbusManager) *)
(* and of the auto-connect loop of src/modbus/app.py.                      *)
(*                                                                         *)
(* Spec     : one ModbusConnection used by one caller thread (the UI) and  *)
(*            by the poller threads start_poll creates.  Every blocking    *)
(*            call (lock acquisition, transport connect, register request, *)
(*            Thread.join) is split into the step that starts it and the   *)
(*            step that ends it, so other threads run in between.          *)
(* SpecForm : the "create connection" form of app.py (lines 91-115):      *)
(*            ModbusManager.create_connection, then the auto-connect loop  *)
(*            around connect().                                            *)
(* SpecWrite: one write followed by one read of what was written.          *)
(* SpecRead : one call of ModbusConnection.read by one thread, against a   *)
(*            device whose answers are drawn from bounded sets: chunking,  *)
(*            fault handling and the address probe.                        *)
(***************************************************************************)
EXTENDS Integers, Sequences, FiniteSets, TLC

(* ----------------------------- bounds -------------------------------- *)
\* poller thread slots (threads alive at the same time)
MaxPollers == 2
\* ModbusTcpClient objects alive at the same time
MaxHandles == 2
\* poll cycles that get a timestamp
MaxCycles == 2
\* largest max_history handed to start_poll
MaxHistoryArg == 2

\* SpecRead: largest address and count a read is called with
MaxAddr == 1
MaxCount == 4
\* SpecRead: largest max_per_request and alt_probe_range handed to read
MaxPer == 3
MaxRange == 2
\* SpecWrite: the longest value list written
MaxVals == 3

(* max_attempts and backoff_base (0.5 s, in tenths of a second) of the   *)
(* auto-connect loop, app.py lines 93 and 96                             *)
max_attempts == 5
backoff_base == 5

(* DEFAULT_MAX_READ, the same for the four register spaces (lines 22-27) *)
DEFAULT_MAX_READ == 100

(* ----------------------------- threads ------------------------------- *)
Caller == 0
Pollers == 1..MaxPollers
Threads == 0..MaxPollers
Handles == 1..MaxHandles
NoThread == 0
NoHandle == 0
NoParams == -1
NoHolder == -1
\* the id of the connection modelled (a uuid4 string in the code, line 39)
ConnId == 1

VARIABLES
  connected,     \* self.connected
  client,        \* self.client: the ModbusTcpClient object referenced
  sock,          \* per client object: "open" when its socket exists, else "none"
  lock,          \* self._lock: NoHolder when free, else the holding thread
  poll_thread,   \* self._poll_thread (NoThread for None)
  poll_stop,     \* self._poll_stop (the Event's flag)
  poll_params,   \* self._poll_params, reduced to its max_history (NoParams for None)
  poll_history,  \* self.poll_history
  pc,            \* per thread: the statement it is at
  hnd,           \* per thread: the client object its blocking socket call runs on
  mh,            \* per poller: max_history of the start_poll call that made it
  entry,         \* per poller: the entry built at line 254/256, not yet appended
  op,            \* the call the caller thread is in (or last was in)
  res,           \* what that call returned or raised ("none" while it runs)
  clock,         \* time.time(), advanced at each stamped entry
  stopped,       \* the caller's stop_poll() has returned, no start_poll call since
  rd,            \* SpecRead: the arguments of the read call and self._max_read[type]
  dev,           \* SpecRead: the device: its illegal addresses, how it answers
  rpc,           \* SpecRead: where the call is
  results,       \* SpecRead: read's local `results`
  remaining,     \* SpecRead: read's local `remaining`
  offset,        \* SpecRead: read's local `offset`
  reqs,          \* SpecRead: the requests sent to the device, in order
  probe_k,       \* SpecRead: index of the next probe address of lines 193-195
  ret,           \* SpecRead: the list read returned
  last_read,     \* self.last_read, reduced to address, count and values
  conns,         \* ModbusManager._conns, as the set of ids registered
  fpc,           \* SpecForm: where the form's handler is ("off": no form runs)
  attempt,       \* SpecForm: the loop's `attempt`
  fconnected,    \* SpecForm: the loop's local `connected`
  waits,         \* SpecForm: the time.sleep() calls made, in tenths of a second
  tries,         \* SpecForm: transport connects started since the form was submitted
  okSeen,        \* SpecForm: a connect() of the form's handler has returned True
  wr,            \* SpecWrite: the arguments of the write call
  mem,           \* SpecWrite: what the device holds in the space written, by address
  wpc,           \* SpecWrite: where the write-then-read sequence is ("off": none)
  mlock          \* ModbusManager._lock: the thread that holds it, or NoHolder

vars == <<connected, client, sock, lock, poll_thread, poll_stop, poll_params,
          poll_history, pc, hnd, mh, entry, op, res, clock, stopped,
          rd, dev, rpc, results, remaining, offset, reqs, probe_k, ret, last_read,
          conns, fpc, attempt, fconnected, waits, tries, okSeen, wr, mem, wpc, mlock>>

connVars == <<connected, client, sock>>
pollVars == <<poll_thread, poll_stop, poll_params, poll_history>>
callVars == <<op, res>>
formVars == <<conns, fpc, attempt, fconnected, waits, tries, okSeen, mlock>>
writeVars == <<wr, mem, wpc>>
readVars == <<rd, dev, rpc, results, remaining, offset, reqs, probe_k, ret, last_read>>

NoEntry == [ts |-> 0, err |-> FALSE]
NoRead == [address |-> -1, count |-> 0, values |-> <<>>]
NoArgs == [type |-> "holding", address |-> 0, count |-> 1, hasMpr |-> FALSE, mpr |-> 0,
           cfg |-> DEFAULT_MAX_READ, try |-> FALSE, range |-> 0]
NoDev == [illegal |-> {}, mode |-> "full"]
NoWrite == [type |-> "holding", address |-> 0, values |-> <<>>, shape |-> "list"]
NoMem == <<>>
NoOp == [name |-> "none", valid |-> TRUE, kw |-> "absent", m |-> 0]

(* ModbusConnection.__init__ *)
Init ==
  /\ connected = FALSE
  /\ client = 1
  /\ sock = [h \in Handles |-> "none"]
  /\ lock = NoHolder
  /\ poll_thread = NoThread
  /\ poll_stop = FALSE
  /\ poll_params = NoParams
  /\ poll_history = <<>>
  /\ pc = [t \in Threads |-> IF t = Caller THEN "idle" ELSE "dead"]
  /\ hnd = [t \in Threads |-> NoHandle]
  /\ mh = [t \in Pollers |-> 0]
  /\ entry = [t \in Pollers |-> NoEntry]
  /\ op = NoOp
  /\ res = "none"
  /\ clock = 0
  /\ stopped = FALSE
  /\ rd = NoArgs
  /\ dev = NoDev
  /\ rpc = "off"
  /\ results = <<>>
  /\ remaining = 0
  /\ offset = 0
  /\ reqs = <<>>
  /\ probe_k = 0
  /\ ret = <<>>
  /\ last_read = NoRead
  /\ conns = {ConnId}
  /\ fpc = "off"
  /\ attempt = 0
  /\ fconnected = FALSE
  /\ waits = <<>>
  /\ tries = 0
  /\ okSeen = FALSE
  /\ mlock = NoHolder
  /\ wr = NoWrite
  /\ mem = NoMem
  /\ wpc = "off"

(* ------------------------- client objects ---------------------------- *)
(* A ModbusTcpClient object nobody can reach any more: not self.client,   *)
(* not the receiver of a call in progress, and holding no socket.         *)
FreeHandles ==
  {h \in Handles : h # client /\ sock[h] = "none" /\ \A t \in Threads : hnd[t] # h}

FreshHandle == CHOOSE h \in FreeHandles : \A g \in FreeHandles : h <= g

(* ----------------------- how a call comes back ----------------------- *)
(* read/write leave the `with self._lock` block: to the caller as a      *)
(* result or an exception; in _worker as the entry of lines 254/256.     *)
Done(t, val, isErr) ==
  IF t = Caller
  THEN /\ pc' = [pc EXCEPT ![t] = "idle"]
       /\ res' = val
       /\ UNCHANGED <<entry, clock>>
  ELSE /\ pc' = [pc EXCEPT ![t] = "append"]
       /\ entry' = [entry EXCEPT ![t] = [ts |-> clock + 1, err |-> isErr]]
       /\ clock' = clock + 1
       /\ UNCHANGED res

(* _ensure_connected answered True to thread t, which holds the lock; c  *)
(* is self.connected at that point.                                      *)
(* read: the register request starts on self.client (lines 163/174).     *)
(* write: the type test sits inside the try block (lines 223-236), an    *)
(* unsupported type raises ValueError into `except Exception` (240-242). *)
StartIo(t, c) ==
  IF t = Caller /\ op.name = "write" /\ ~op.valid
  THEN /\ connected' = FALSE
       /\ lock' = NoHolder
       /\ hnd' = [hnd EXCEPT ![t] = NoHandle]
       /\ Done(t, "ValueError", TRUE)
  ELSE /\ connected' = c
       /\ lock' = t
       /\ hnd' = [hnd EXCEPT ![t] = client]
       /\ pc' = [pc EXCEPT ![t] = "io_wait"]
       /\ UNCHANGED <<res, entry, clock>>

(* connect() returns v, with self.connected = c: to the caller (app.py   *)
(* line 217 and the like), or to _ensure_connected inside read/write     *)
(* (lines 150-151, 221-222: ConnectionError when it is False).           *)
ConnectReturn(t, v, c) ==
  IF t = Caller /\ op.name = "connect"
  THEN /\ pc' = [pc EXCEPT ![t] = "idle"]
       /\ res' = IF v THEN "True" ELSE "False"
       /\ connected' = c
       /\ hnd' = [hnd EXCEPT ![t] = NoHandle]
       /\ UNCHANGED <<lock, entry, clock>>
  ELSE IF v
  THEN StartIo(t, c)
  ELSE /\ lock' = NoHolder
       /\ connected' = c
       /\ hnd' = [hnd EXCEPT ![t] = NoHandle]
       /\ Done(t, "ConnectionError", TRUE)

(* ------------------------------ connect ------------------------------ *)
(* line 61: self.client.close() *)
CnCloseOk(t) ==
  /\ pc[t] = "cn_close"
  /\ sock' = [sock EXCEPT ![client] = "none"]
  /\ pc' = [pc EXCEPT ![t] = "cn_new"]
  /\ UNCHANGED <<readVars, formVars, writeVars, connected, client, lock, pollVars, hnd, mh, entry, callVars,
                 clock, stopped>>

(* line 61 faults: the transport close leaves the socket in place and    *)
(* control lands in the except clause (lines 66-68).                     *)
CnCloseFault(t) ==
  /\ pc[t] = "cn_close"
  /\ sock[client] = "open"
  /\ ConnectReturn(t, FALSE, FALSE)
  /\ UNCHANGED <<readVars, formVars, writeVars, client, sock, pollVars, mh, op, stopped>>

(* lines 62-63: self.client = ModbusTcpClient(...), and its connect()    *)
(* starts.                                                                *)
CnNew(t) ==
  /\ pc[t] = "cn_new"
  /\ FreeHandles # {}
  /\ client' = FreshHandle
  /\ hnd' = [hnd EXCEPT ![t] = FreshHandle]
  /\ pc' = [pc EXCEPT ![t] = "cn_wait"]
  /\ tries' = IF fpc = "off" THEN tries ELSE tries + 1
  /\ UNCHANGED <<readVars, writeVars, conns, fpc, attempt, fconnected, waits, okSeen, mlock,
                 connected, sock, lock, pollVars, mh, entry, callVars, clock,
                 stopped>>

(* lines 63-64: the transport connect comes back, self.connected = ok *)
CnWaitOk(t) ==
  /\ pc[t] = "cn_wait"
  /\ sock' = [sock EXCEPT ![hnd[t]] = "open"]
  /\ connected' = TRUE
  /\ hnd' = [hnd EXCEPT ![t] = NoHandle]
  /\ pc' = [pc EXCEPT ![t] = "cn_ret"]
  /\ UNCHANGED <<readVars, formVars, writeVars, client, lock, pollVars, mh, entry, callVars, clock, stopped>>

CnWaitRefused(t) ==
  /\ pc[t] = "cn_wait"
  /\ sock[hnd[t]] = "none"
  /\ connected' = FALSE
  /\ hnd' = [hnd EXCEPT ![t] = NoHandle]
  /\ pc' = [pc EXCEPT ![t] = "cn_ret"]
  /\ UNCHANGED <<readVars, formVars, writeVars, client, sock, lock, pollVars, mh, entry, callVars, clock, stopped>>

(* line 65: return self.connected *)
CnRet(t) ==
  /\ pc[t] = "cn_ret"
  /\ ConnectReturn(t, connected, connected)
  /\ UNCHANGED <<readVars, formVars, writeVars, client, sock, pollVars, mh, op, stopped>>

(* --------------------------- read / write ---------------------------- *)
\* a lock that never makes anybody wait
LockFree_Ignored == TRUE

LockFree == lock = NoHolder

(* read's validation, lines 145-149: valid says address >= 0, count >= 1 *)
Rejects(t) == t = Caller /\ op.name = "read" /\ ~op.valid

(* lines 144-149: `with self._lock`, then ValueError leaves the block *)
AcquireRejected(t) ==
  /\ pc[t] = "rd_lock"
  /\ LockFree
  /\ Rejects(t)
  /\ pc' = [pc EXCEPT ![t] = "idle"]
  /\ res' = "ValueError"
  /\ UNCHANGED <<readVars, formVars, writeVars, connVars, lock, pollVars, hnd, mh, entry, op, clock, stopped>>

(* lines 144-150 and 220-221 with line 79: connected and client and      *)
(* client.connect(); the client answers True at once when it holds a     *)
(* socket.                                                                *)
AcquireHealthy(t) ==
  /\ pc[t] = "rd_lock"
  /\ LockFree
  /\ ~Rejects(t)
  /\ connected /\ sock[client] = "open"
  /\ StartIo(t, connected)
  /\ UNCHANGED <<readVars, formVars, writeVars, client, sock, pollVars, mh, op, stopped>>

(* line 79, connected but the client holds no socket: client.connect()   *)
(* tries the transport.                                                   *)
AcquireProbe(t) ==
  /\ pc[t] = "rd_lock"
  /\ LockFree
  /\ ~Rejects(t)
  /\ connected /\ sock[client] = "none"
  /\ lock' = t
  /\ hnd' = [hnd EXCEPT ![t] = client]
  /\ pc' = [pc EXCEPT ![t] = "ec_wait"]
  /\ UNCHANGED <<readVars, formVars, writeVars, connVars, pollVars, mh, entry, callVars, clock, stopped>>

(* lines 79-81, not connected: return self.connect() *)
AcquireReconnect(t) ==
  /\ pc[t] = "rd_lock"
  /\ LockFree
  /\ ~Rejects(t)
  /\ ~connected
  /\ lock' = t
  /\ pc' = [pc EXCEPT ![t] = "cn_close"]
  /\ UNCHANGED <<readVars, formVars, writeVars, connVars, pollVars, hnd, mh, entry, callVars, clock, stopped>>

EcWaitOk(t) ==
  /\ pc[t] = "ec_wait"
  /\ sock' = [sock EXCEPT ![hnd[t]] = "open"]
  /\ StartIo(t, connected)
  /\ UNCHANGED <<readVars, formVars, writeVars, client, pollVars, mh, op, stopped>>

(* line 81: return self.connect() *)
EcWaitRefused(t) ==
  /\ pc[t] = "ec_wait"
  /\ sock[hnd[t]] = "none"
  /\ hnd' = [hnd EXCEPT ![t] = NoHandle]
  /\ pc' = [pc EXCEPT ![t] = "cn_close"]
  /\ UNCHANGED <<readVars, formVars, writeVars, connVars, lock, pollVars, mh, entry, callVars, clock, stopped>>

(* the register request answers: lines 164-165/183-184 and 237-239 *)
IoOk(t) ==
  /\ pc[t] = "io_wait"
  /\ hnd' = [hnd EXCEPT ![t] = NoHandle]
  /\ lock' = NoHolder
  /\ Done(t, "ok", FALSE)
  /\ UNCHANGED <<readVars, formVars, writeVars, connVars, pollVars, mh, op, stopped>>

(* it faults: lines 211-217 and 240-242 *)
IoFault(t) ==
  /\ pc[t] = "io_wait"
  /\ hnd' = [hnd EXCEPT ![t] = NoHandle]
  /\ connected' = FALSE
  /\ lock' = NoHolder
  /\ Done(t, "ModbusIOException", TRUE)
  /\ UNCHANGED <<readVars, formVars, writeVars, client, sock, pollVars, mh, op, stopped>>

(* ------------------------------ _worker ------------------------------ *)
(* lines 250 and 262-263: self._poll_stop.wait(...) finds the event set  *)
(* and the loop ends.                                                     *)
PollStop(t) ==
  /\ t \in Pollers
  /\ pc[t] = "check"
  /\ poll_stop
  /\ pc' = [pc EXCEPT ![t] = "dead"]
  /\ mh' = [mh EXCEPT ![t] = 0]
  /\ UNCHANGED <<readVars, formVars, writeVars, connVars, lock, pollVars, hnd, entry, callVars, clock, stopped>>

(* lines 250-253: the event is clear (the wait, if any, ran out): a      *)
(* cycle starts and calls self.read(...).                                 *)
PollGo(t) ==
  /\ t \in Pollers
  /\ pc[t] = "check"
  /\ ~poll_stop
  /\ clock < MaxCycles
  /\ pc' = [pc EXCEPT ![t] = "rd_lock"]
  /\ UNCHANGED <<readVars, formVars, writeVars, connVars, lock, pollVars, hnd, mh, entry, callVars, clock, stopped>>

(* lines 257-259: append, then pop(0) once when over max_history *)
Evict(h, m) == IF Len(h) > m THEN Tail(h) ELSE h

\* a loop that a failed cycle ends: the error entry is stored, the thread stops
PollAppend_Dies(t) ==
  /\ t \in Pollers
  /\ pc[t] = "append"
  /\ poll_history' = Evict(Append(poll_history, entry[t]), mh[t])
  /\ entry' = [entry EXCEPT ![t] = NoEntry]
  /\ pc' = [pc EXCEPT ![t] = IF entry[t].err THEN "dead" ELSE "check"]
  /\ mh' = mh
  /\ UNCHANGED <<readVars, formVars, writeVars, connVars, lock, poll_thread, poll_stop,
                 poll_params, hnd, callVars, clock, stopped>>

PollAppend(t) ==
  /\ t \in Pollers
  /\ pc[t] = "append"
  /\ poll_history' = Evict(Append(poll_history, entry[t]), mh[t])
  /\ entry' = [entry EXCEPT ![t] = NoEntry]
  /\ pc' = [pc EXCEPT ![t] = "check"]
  /\ UNCHANGED <<readVars, formVars, writeVars, connVars, lock, poll_thread, poll_stop, poll_params, hnd, mh,
                 callVars, clock, stopped>>

(* ----------------------------- stop_poll ----------------------------- *)
Alive(t) == t # NoThread /\ pc[t] # "dead"

(* A thread inside a blocking call: waiting for the lock another thread   *)
(* holds, or for a socket call (connect timeout 5 s, line 59) to answer.  *)
(* Only such a thread outlasts join(timeout=2), line 271.                 *)
Blocked(t) ==
  \/ pc[t] \in {"cn_wait", "ec_wait", "io_wait"}
  \/ pc[t] = "rd_lock" /\ ~LockFree

(* lines 272-274 *)
StopReset ==
  /\ poll_thread' = NoThread
  /\ poll_stop' = FALSE
  /\ poll_params' = NoParams

(* stop_poll returns into close (line 73; remove calls close, line 303), *)
(* start_poll (line 247) or to the caller.                               *)
StopReturn ==
  IF op.name = "stop_poll"
  THEN /\ pc' = [pc EXCEPT ![Caller] = "idle"]
       /\ res' = "ok"
       /\ stopped' = TRUE
  ELSE IF op.name \in {"close", "remove"}
  THEN /\ pc' = [pc EXCEPT ![Caller] = "cl_close"]
       /\ UNCHANGED <<res, stopped>>
  ELSE /\ pc' = [pc EXCEPT ![Caller] = "st_start"]
       /\ UNCHANGED <<res, stopped>>

(* lines 269-270: the thread is alive: set the event and join *)
SpSignal ==
  /\ pc[Caller] = "sp_check"
  /\ Alive(poll_thread)
  /\ poll_stop' = TRUE
  /\ pc' = [pc EXCEPT ![Caller] = "sp_join"]
  /\ UNCHANGED <<readVars, formVars, writeVars, connVars, lock, poll_thread, poll_params, poll_history, hnd, mh,
                 entry, callVars, clock, stopped>>

(* line 269 false: no live thread *)
SpNoThread ==
  /\ pc[Caller] = "sp_check"
  /\ ~Alive(poll_thread)
  /\ StopReset
  /\ StopReturn
  /\ UNCHANGED <<readVars, formVars, writeVars, connVars, lock, poll_history, hnd, mh, entry, op, clock>>

(* line 271: join returns because the thread ended *)
SpJoined ==
  /\ pc[Caller] = "sp_join"
  /\ ~Alive(poll_thread)
  /\ StopReset
  /\ StopReturn
  /\ UNCHANGED <<readVars, formVars, writeVars, connVars, lock, poll_history, hnd, mh, entry, op, clock>>

\* a join without timeout
JoinTimesOut_Never == FALSE

(* line 271: join returns because its 2 s ran out *)
JoinTimesOut == Blocked(poll_thread)

SpJoinTimeout ==
  /\ pc[Caller] = "sp_join"
  /\ Alive(poll_thread)
  /\ JoinTimesOut
  /\ StopReset
  /\ StopReturn
  /\ UNCHANGED <<readVars, formVars, writeVars, connVars, lock, poll_history, hnd, mh, entry, op, clock>>

(* ---------------------------- start_poll ----------------------------- *)
(* lines 247-266 *)
StStart ==
  /\ pc[Caller] = "st_start"
  /\ \E t \in Pollers :
       /\ pc[t] = "dead"
       /\ \A u \in Pollers : pc[u] = "dead" => t <= u
       /\ pc' = [pc EXCEPT ![Caller] = "idle", ![t] = "check"]
       /\ mh' = [mh EXCEPT ![t] = op.m]
       /\ poll_thread' = t
  /\ poll_stop' = FALSE
  /\ poll_params' = op.m
  /\ res' = "ok"
  /\ UNCHANGED <<readVars, formVars, writeVars, connVars, lock, poll_history, hnd, entry, op, clock, stopped>>

(* ------------------------------- close ------------------------------- *)
(* lines 73-76: client.close(), finally connected = False *)
ClCloseOk ==
  /\ pc[Caller] = "cl_close"
  /\ sock' = [sock EXCEPT ![client] = "none"]
  /\ connected' = FALSE
  /\ pc' = [pc EXCEPT ![Caller] = "idle"]
  /\ res' = "ok"
  /\ UNCHANGED <<readVars, formVars, writeVars, client, lock, pollVars, hnd, mh, entry, op, clock, stopped>>

ClCloseFault ==
  /\ pc[Caller] = "cl_close"
  /\ sock[client] = "open"
  /\ connected' = FALSE
  /\ pc' = [pc EXCEPT ![Caller] = "idle"]
  /\ res' = "raised"
  /\ UNCHANGED <<readVars, formVars, writeVars, client, sock, lock, pollVars, hnd, mh, entry, op, clock,
                 stopped>>

(* --------------------- the calls the caller makes -------------------- *)
Begin(o, first) ==
  /\ pc[Caller] = "idle"
  /\ op' = o
  /\ res' = "none"
  /\ pc' = [pc EXCEPT ![Caller] = first]

CallConnect ==
  /\ Begin([NoOp EXCEPT !.name = "connect"], "cn_close")
  /\ UNCHANGED <<readVars, formVars, writeVars, connVars, lock, pollVars, hnd, mh, entry, clock, stopped>>

CallClose ==
  /\ Begin([NoOp EXCEPT !.name = "close"], "sp_check")
  /\ UNCHANGED <<readVars, formVars, writeVars, connVars, lock, pollVars, hnd, mh, entry, clock, stopped>>

CallStopPoll ==
  /\ Begin([NoOp EXCEPT !.name = "stop_poll"], "sp_check")
  /\ UNCHANGED <<readVars, formVars, writeVars, connVars, lock, pollVars, hnd, mh, entry, clock, stopped>>

CallStartPoll ==
  /\ \E m \in 1..MaxHistoryArg :
       Begin([NoOp EXCEPT !.name = "start_poll", !.m = m], "sp_check")
  /\ stopped' = FALSE
  /\ UNCHANGED <<readVars, formVars, writeVars, connVars, lock, pollVars, hnd, mh, entry, clock>>

(* read(type, address, count): valid says address >= 0 and count >= 1 *)
CallRead ==
  /\ \E v \in BOOLEAN :
       Begin([NoOp EXCEPT !.name = "read", !.valid = v], "rd_lock")
  /\ UNCHANGED <<readVars, formVars, writeVars, connVars, lock, pollVars, hnd, mh, entry, clock, stopped>>

(* read(..., allow_reconnect=b), as app.py calls it (line 220): read's    *)
(* signature (lines 130-138) has no such parameter, the call raises       *)
(* TypeError before the body runs.                                        *)
CallReadKw ==
  /\ pc[Caller] = "idle"
  /\ \E b \in {"True", "False"} :
       op' = [NoOp EXCEPT !.name = "read", !.kw = b]
  /\ res' = "TypeError"
  /\ UNCHANGED <<readVars, formVars, writeVars, connVars, lock, pollVars, pc, hnd, mh, entry, clock, stopped>>

(* write(type, address, values): valid says type is holding or coils *)
CallWrite ==
  /\ \E v \in BOOLEAN :
       Begin([NoOp EXCEPT !.name = "write", !.valid = v], "rd_lock")
  /\ UNCHANGED <<readVars, formVars, writeVars, connVars, lock, pollVars, hnd, mh, entry, clock, stopped>>

(* ------------------------------- Spec -------------------------------- *)
ThreadStep(t) ==
  \/ CnCloseOk(t) \/ CnCloseFault(t) \/ CnNew(t)
  \/ CnWaitOk(t) \/ CnWaitRefused(t) \/ CnRet(t)
  \/ AcquireRejected(t) \/ AcquireHealthy(t) \/ AcquireProbe(t)
  \/ AcquireReconnect(t) \/ EcWaitOk(t) \/ EcWaitRefused(t)
  \/ IoOk(t) \/ IoFault(t)
  \/ PollStop(t) \/ PollGo(t) \/ PollAppend(t)

Next ==
  \/ CallConnect \/ CallClose \/ CallStopPoll \/ CallStartPoll
  \/ CallRead \/ CallReadKw \/ CallWrite
  \/ SpSignal \/ SpNoThread \/ SpJoined \/ SpJoinTimeout
  \/ StStart \/ ClCloseOk \/ ClCloseFault
  \/ \E t \in Threads : ThreadStep(t)

Spec == Init /\ [][Next]_vars

(* ===================================================================== *)
(*        SpecForm: the "create connection" form, app.py lines 91-115    *)
(* ===================================================================== *)
formIdle == <<connVars, lock, pollVars, hnd, mh, entry, clock, stopped, readVars,
             writeVars, mlock>>

InitForm ==
  /\ connected = FALSE
  /\ client = 1
  /\ sock = [h \in Handles |-> "none"]
  /\ lock = NoHolder
  /\ poll_thread = NoThread
  /\ poll_stop = FALSE
  /\ poll_params = NoParams
  /\ poll_history = <<>>
  /\ pc = [t \in Threads |-> IF t = Caller THEN "idle" ELSE "dead"]
  /\ hnd = [t \in Threads |-> NoHandle]
  /\ mh = [t \in Pollers |-> 0]
  /\ entry = [t \in Pollers |-> NoEntry]
  /\ op = NoOp
  /\ res = "none"
  /\ clock = 0
  /\ stopped = FALSE
  /\ rd = NoArgs
  /\ dev = NoDev
  /\ rpc = "off"
  /\ results = <<>>
  /\ remaining = 0
  /\ offset = 0
  /\ reqs = <<>>
  /\ probe_k = 0
  /\ ret = <<>>
  /\ last_read = NoRead
  /\ conns = {}
  /\ fpc = "create"
  /\ attempt = 0
  /\ fconnected = FALSE
  /\ waits = <<>>
  /\ tries = 0
  /\ okSeen = FALSE
  /\ mlock = NoHolder
  /\ wr = NoWrite
  /\ mem = NoMem
  /\ wpc = "off"

(* the handler calls conn.connect() *)
FormCalls ==
  /\ pc[Caller] = "idle"
  /\ op' = [NoOp EXCEPT !.name = "connect"]
  /\ res' = "none"
  /\ pc' = [pc EXCEPT ![Caller] = "cn_close"]

\* a creation that connects without putting the connection in the map
FormSubmit_Unregistered ==
  /\ fpc = "create"
  /\ FormCalls
  /\ fpc' = "eager"
  /\ UNCHANGED <<formIdle, conns, attempt, fconnected, waits, tries, okSeen>>

(* app.py line 91 with modbus_manager.py lines 288-292: the connection   *)
(* is built and registered, then conn.connect() is called.               *)
FormSubmit ==
  /\ fpc = "create"
  /\ conns' = conns \cup {ConnId}
  /\ FormCalls
  /\ fpc' = "eager"
  /\ UNCHANGED <<formIdle, attempt, fconnected, waits, tries, okSeen>>

(* line 293 returns conn, the result of connect() is dropped; app.py     *)
(* lines 93-97 set up the loop.                                           *)
FormCreated ==
  /\ fpc = "eager"
  /\ pc[Caller] = "idle"
  /\ okSeen' = (res = "True")
  /\ attempt' = 0
  /\ fconnected' = FALSE
  /\ fpc' = "loop"
  /\ UNCHANGED <<formIdle, pc, op, res, conns, waits, tries>>

(* app.py line 98: while attempt < max_attempts *)
LoopContinues == attempt < max_attempts

(* app.py lines 99-101 *)
FormLoopCall ==
  /\ fpc = "loop"
  /\ LoopContinues
  /\ attempt' = attempt + 1
  /\ FormCalls
  /\ fpc' = "call"
  /\ UNCHANGED <<formIdle, conns, fconnected, waits, tries, okSeen>>

FormLoopExit ==
  /\ fpc = "loop"
  /\ ~LoopContinues
  /\ fpc' = "done"
  /\ UNCHANGED <<formIdle, pc, op, res, conns, attempt, fconnected, waits, tries,
                 okSeen>>

(* app.py lines 104-106: if ok: connected = True; break *)
FormLoopOk ==
  /\ fpc = "call"
  /\ pc[Caller] = "idle"
  /\ res = "True"
  /\ fconnected' = TRUE
  /\ okSeen' = TRUE
  /\ fpc' = "done"
  /\ UNCHANGED <<formIdle, pc, op, res, conns, attempt, waits, tries>>

(* app.py line 107: time.sleep(backoff_base * attempt) *)
Backoff(k) == backoff_base * k

FormLoopFail ==
  /\ fpc = "call"
  /\ pc[Caller] = "idle"
  /\ res = "False"
  /\ waits' = Append(waits, Backoff(attempt))
  /\ fpc' = "loop"
  /\ UNCHANGED <<formIdle, pc, op, res, conns, attempt, fconnected, tries, okSeen>>

NextForm ==
  \/ FormSubmit \/ FormCreated \/ FormLoopCall \/ FormLoopExit
  \/ FormLoopOk \/ FormLoopFail
  \/ CnCloseOk(Caller) \/ CnCloseFault(Caller) \/ CnNew(Caller)
  \/ CnWaitOk(Caller) \/ CnWaitRefused(Caller) \/ CnRet(Caller)

SpecForm == InitForm /\ [][NextForm]_vars

(* ===================================================================== *)
(*                  SpecRead: one call of read (lines 130-217)           *)
(* ===================================================================== *)
RegisterTypes == {"holding", "input"}
BitTypes == {"coils", "discrete"}
\* "other" stands for any tag _single_read does not know (line 112)
TypeTags == RegisterTypes \cup BitTypes \cup {"other"}

\* the highest address a call within the bounds can touch
DevTop == MaxAddr + MaxCount + MaxRange

(* what the device holds: registers 10, 20, 30, ... from address 0, and  *)
(* bits 1, 0, 0, 1, 0, 0, ...                                             *)
RegAt(a) == 10 * (a + 1)
BitAt(a) == a % 3 = 0

Min(a, b) == IF a <= b THEN a ELSE b

(* lines 153-158: the per-request maximum in force *)
MaxAllowed(r) ==
  LET m == IF r.hasMpr THEN r.mpr ELSE r.cfg
  IN IF m <= 0 THEN DEFAULT_MAX_READ ELSE m

(* The device answers a request for n items at address a with k of them  *)
(* (k = n: in full), with an exception response (illegal address, or     *)
(* another code), with nothing (rr is None), or the transport raises.    *)
Answers(a, n) ==
  IF \E x \in a..(a + n - 1) : x \in dev.illegal
  THEN {[kind |-> "illegal", k |-> 0]}
  ELSE {[kind |-> "values", k |-> n]}
       \cup (IF dev.mode = "short"
             THEN {[kind |-> "values", k |-> j] : j \in 0..(n - 1)} ELSE {})
       \cup (IF dev.mode = "faulty"
             THEN {[kind |-> x, k |-> 0] : x \in {"error", "none", "raises"}}
             ELSE {})

(* _single_read, lines 83-111, on an answer of k items: list(rr.registers) *)
(* for registers; for bits the codec hands over whole bytes (8 bits each,  *)
(* zero padded) and the code keeps bits[:count], as 1 or 0.                *)
PaddedLen(k) == 8 * ((k + 7) \div 8)

SingleRead(type, a, n, k) ==
  IF type \in RegisterTypes
  THEN [i \in 1..k |-> RegAt(a + i - 1)]
  ELSE [i \in 1..Min(n, PaddedLen(k)) |->
          IF i <= k /\ BitAt(a + i - 1) THEN 1 ELSE 0]

\* probing that tries the lower neighbour before the upper one
RECURSIVE ProbeFrom_DownFirst(_, _, _)
ProbeFrom_DownFirst(a, d, r) ==
  IF d > r THEN <<>>
  ELSE (IF a - d >= 0 THEN <<a - d>> ELSE <<>>) \o <<a + d>>
         \o ProbeFrom_DownFirst(a, d + 1, r)

(* lines 193-197: address+1, address-1, address+2, ..., negatives skipped *)
RECURSIVE ProbeFrom(_, _, _)
ProbeFrom(a, d, r) ==
  IF d > r THEN <<>>
  ELSE <<a + d>> \o (IF a - d >= 0 THEN <<a - d>> ELSE <<>>) \o ProbeFrom(a, d + 1, r)

ProbeSeq == ProbeFrom(rd.address, 1, rd.range)

mainIdle == <<client, sock, pollVars, pc, hnd, mh, entry, op, clock, stopped, formVars,
             writeVars>>

IllegalSets == {{}} \cup {{a} : a \in 0..(MaxAddr + 1)} \cup {0..DevTop}

MaxSettings ==
  {[hasMpr |-> FALSE, mpr |-> 0, cfg |-> c] : c \in {0, 2, DEFAULT_MAX_READ}}
  \cup {[hasMpr |-> TRUE, mpr |-> m, cfg |-> DEFAULT_MAX_READ] : m \in (-1)..MaxPer}

ProbeSettings ==
  {[try |-> FALSE, range |-> 0]} \cup {[try |-> TRUE, range |-> r] : r \in 1..MaxRange}

InitRead ==
  /\ connected \in BOOLEAN
  /\ client = 1
  /\ sock = [h \in Handles |-> IF h = 1 /\ connected THEN "open" ELSE "none"]
  /\ lock = NoHolder
  /\ poll_thread = NoThread
  /\ poll_stop = FALSE
  /\ poll_params = NoParams
  /\ poll_history = <<>>
  /\ pc = [t \in Threads |-> IF t = Caller THEN "idle" ELSE "dead"]
  /\ hnd = [t \in Threads |-> NoHandle]
  /\ mh = [t \in Pollers |-> 0]
  /\ entry = [t \in Pollers |-> NoEntry]
  /\ op = [NoOp EXCEPT !.name = "read"]
  /\ res = "none"
  /\ clock = 0
  /\ stopped = FALSE
  /\ \E ty \in TypeTags, a \in (-1)..MaxAddr, c \in 0..MaxCount,
        ms \in MaxSettings, ps \in ProbeSettings :
       rd = [type |-> ty, address |-> a, count |-> c, hasMpr |-> ms.hasMpr,
             mpr |-> ms.mpr, cfg |-> ms.cfg, try |-> ps.try, range |-> ps.range]
  /\ \E ill \in IllegalSets, m \in {"full", "short", "faulty"} :
       dev = [illegal |-> ill, mode |-> m]
  /\ rpc = "call"
  /\ results = <<>>
  /\ remaining = 0
  /\ offset = 0
  /\ reqs = <<>>
  /\ probe_k = 0
  /\ ret = <<>>
  /\ last_read = NoRead
  /\ conns = {ConnId}
  /\ fpc = "off"
  /\ attempt = 0
  /\ fconnected = FALSE
  /\ waits = <<>>
  /\ tries = 0
  /\ okSeen = FALSE
  /\ mlock = NoHolder
  /\ wr = NoWrite
  /\ mem = NoMem
  /\ wpc = "off"

(* lines 145-149 *)
ArgsValid == rd.address >= 0 /\ rd.count >= 1

RdReject ==
  /\ rpc = "call"
  /\ ~ArgsValid
  /\ res' = "ValueError"
  /\ rpc' = "done"
  /\ UNCHANGED <<connVars, lock, mainIdle, rd, dev, results, remaining, offset,
                 reqs, probe_k, ret, last_read>>

(* lines 150-151: _ensure_connected() is False, connect having failed *)
RdConnFail ==
  /\ rpc = "call"
  /\ ArgsValid
  /\ ~connected
  /\ res' = "ConnectionError"
  /\ rpc' = "done"
  /\ UNCHANGED <<connVars, lock, mainIdle, rd, dev, results, remaining, offset,
                 reqs, probe_k, ret, last_read>>

(* lines 144-170: lock taken, arguments valid, _ensure_connected() True   *)
(* (the socket was healthy, or connect has just installed a new one).     *)
RdEnter ==
  /\ rpc = "call"
  /\ ArgsValid
  /\ connected' = TRUE
  /\ sock' = [sock EXCEPT ![client] = "open"]
  /\ lock' = Caller
  /\ rpc' = IF rd.count <= MaxAllowed(rd) THEN "single" ELSE "chunk"
  /\ results' = <<>>
  /\ remaining' = rd.count
  /\ offset' = 0
  /\ UNCHANGED <<client, mainIdle, res, rd, dev, reqs, probe_k, ret, last_read>>

(* the call returns vals: lines 164-165 and 182-184 *)
Returns(vals) ==
  /\ last_read' = [address |-> rd.address, count |-> rd.count, values |-> vals]
  /\ ret' = vals
  /\ res' = "ok"
  /\ rpc' = "done"
  /\ lock' = NoHolder
  /\ UNCHANGED <<connVars, probe_k>>

(* lines 186-217: what the try block's handlers do with a fault *)
ProbesOn(kind) == rd.try /\ kind = "illegal"

Handles_(kind) ==
  IF kind \in {"illegal", "error", "none"} /\ ProbesOn(kind)
  THEN /\ rpc' = "probe"
       /\ probe_k' = 1
       /\ UNCHANGED <<connVars, lock, res, ret, last_read>>
  ELSE /\ connected' = FALSE
       /\ res' = IF kind \in {"illegal", "error", "none"} THEN "ModbusIOException"
                 ELSE IF kind = "badtype" THEN "ValueError" ELSE "Exception"
       /\ rpc' = "done"
       /\ lock' = NoHolder
       /\ UNCHANGED <<client, sock, probe_k, ret, last_read>>

(* line 112: an unknown tag raises ValueError before anything is sent *)
RdBadType ==
  /\ rpc \in {"single", "chunk"}
  /\ rd.type = "other"
  /\ Handles_("badtype")
  /\ UNCHANGED <<mainIdle, rd, dev, results, remaining, offset, reqs>>

(* lines 162-165: one request for the whole count *)
RdSingle ==
  /\ rpc = "single"
  /\ rd.type # "other"
  /\ reqs' = Append(reqs, [addr |-> rd.address, n |-> rd.count, probe |-> FALSE])
  /\ \E ans \in Answers(rd.address, rd.count) :
       IF ans.kind = "values"
       THEN Returns(SingleRead(rd.type, rd.address, rd.count, ans.k))
       ELSE Handles_(ans.kind)
  /\ UNCHANGED <<mainIdle, rd, dev, results, remaining, offset>>

(* lines 171-184: one turn of the chunk loop *)
ChunkOf(rem) == Min(rem, MaxAllowed(rd))

\* a loop that never advances: every chunk is read at the first address
ChunkAddr_Stuck(off) == rd.address

(* line 173: chunk_addr = address + offset *)
ChunkAddr(off) == rd.address + off

SubSeqTo(q, n) == [i \in 1..Min(n, Len(q)) |-> q[i]]

\* a loop that goes on after a short answer
ShortAnswer_Ignored(part, chunk) == FALSE

(* line 178: the sub-request gave fewer items than it asked for *)
ShortAnswer(part, chunk) == Len(part) < chunk

RdChunk ==
  /\ rpc = "chunk"
  /\ rd.type # "other"
  /\ LET chunk == ChunkOf(remaining)
         addr == ChunkAddr(offset)
     IN /\ reqs' = Append(reqs, [addr |-> addr, n |-> chunk, probe |-> FALSE])
        /\ \E ans \in Answers(addr, chunk) :
             IF ans.kind = "values"
             THEN LET part == SingleRead(rd.type, addr, chunk, ans.k)
                      all == results \o part
                  IN /\ results' = all
                     /\ remaining' = remaining - Len(part)
                     /\ offset' = offset + Len(part)
                     /\ IF ShortAnswer(part, chunk) \/ remaining - Len(part) <= 0
                        THEN Returns(SubSeqTo(all, rd.count))
                        ELSE UNCHANGED <<connVars, lock, res, rpc, probe_k, ret,
                                         last_read>>
             ELSE /\ Handles_(ans.kind)
                  /\ UNCHANGED <<results, remaining, offset>>
  /\ UNCHANGED <<mainIdle, rd, dev>>

(* lines 114-128 and 198: a probe reads one item; any list is a success *)
RdProbeHit ==
  /\ rpc = "probe"
  /\ probe_k <= Len(ProbeSeq)
  /\ \E ans \in Answers(ProbeSeq[probe_k], 1) : ans.kind = "values"
  /\ reqs' = Append(reqs, [addr |-> ProbeSeq[probe_k], n |-> 1, probe |-> TRUE])
  /\ rpc' = "reissue"
  /\ UNCHANGED <<connVars, lock, mainIdle, res, rd, dev, results, remaining,
                 offset, probe_k, ret, last_read>>

RdProbeMiss ==
  /\ rpc = "probe"
  /\ probe_k <= Len(ProbeSeq)
  /\ \E ans \in Answers(ProbeSeq[probe_k], 1) : ans.kind # "values"
  /\ reqs' = Append(reqs, [addr |-> ProbeSeq[probe_k], n |-> 1, probe |-> TRUE])
  /\ probe_k' = probe_k + 1
  /\ UNCHANGED <<connVars, lock, mainIdle, res, rd, dev, rpc, results, remaining,
                 offset, ret, last_read>>

(* line 209: no probe answered; the raise sits inside the handler of     *)
(* line 186, which the handler of line 214 does not cover.               *)
RdProbesFailed ==
  /\ rpc = "probe"
  /\ probe_k > Len(ProbeSeq)
  /\ res' = "ModbusIOException"
  /\ rpc' = "done"
  /\ lock' = NoHolder
  /\ UNCHANGED <<connVars, mainIdle, rd, dev, results, remaining, offset, reqs,
                 probe_k, ret, last_read>>

(* line 202: self.read(...) from inside `with self._lock`: line 144 of    *)
(* the inner call waits for the threading.Lock its own thread holds.      *)
RdReissue ==
  /\ rpc = "reissue"
  /\ ~LockFree
  /\ rpc' = "blocked"
  /\ UNCHANGED <<connVars, lock, mainIdle, res, rd, dev, results, remaining,
                 offset, reqs, probe_k, ret, last_read>>

NextRead ==
  \/ RdReject \/ RdConnFail \/ RdEnter \/ RdBadType \/ RdSingle \/ RdChunk
  \/ RdProbeHit \/ RdProbeMiss \/ RdProbesFailed \/ RdReissue

SpecRead == InitRead /\ [][NextRead]_vars

(* ===================================================================== *)
(*     SpecWrite: write (lines 219-242), then read of what was written   *)
(* ===================================================================== *)
\* the values a caller may pass: inside and outside what the codec packs
RegValues == {-1, 0, 7, 65535, 65536}
CoilValues == {0, 1, 2}

ValueLists(S) == UNION {[1..n -> S] : n \in 0..MaxVals}

(* The values argument is a list, or a bare value (shape "scalar", kept   *)
(* here as the one value it is), which is what app.py lines 333 and 336  *)
(* hand over as `parsed` and `v`.                                        *)
WriteArgs ==
  {[type |-> "holding", address |-> a, values |-> vs, shape |-> "list"] :
     a \in 0..MaxAddr, vs \in ValueLists(RegValues)}
  \cup {[type |-> "coils", address |-> a, values |-> vs, shape |-> "list"] :
          a \in 0..MaxAddr, vs \in ValueLists(CoilValues)}
  \cup {[type |-> "holding", address |-> a, values |-> <<v>>, shape |-> "scalar"] :
          a \in 0..MaxAddr, v \in RegValues}
  \cup {[type |-> "coils", address |-> a, values |-> <<v>>, shape |-> "scalar"] :
          a \in 0..MaxAddr, v \in CoilValues}

\* the highest address a write within the bounds can touch
MemTop == MaxAddr + MaxVals

(* The connection is connected and its socket open; the device holds     *)
(* RegAt / BitAt in the space written.                                   *)
InitWrite ==
  /\ connected = TRUE
  /\ client = 1
  /\ sock = [h \in Handles |-> IF h = 1 THEN "open" ELSE "none"]
  /\ lock = NoHolder
  /\ poll_thread = NoThread
  /\ poll_stop = FALSE
  /\ poll_params = NoParams
  /\ poll_history = <<>>
  /\ pc = [t \in Threads |-> IF t = Caller THEN "idle" ELSE "dead"]
  /\ hnd = [t \in Threads |-> NoHandle]
  /\ mh = [t \in Pollers |-> 0]
  /\ entry = [t \in Pollers |-> NoEntry]
  /\ op = NoOp
  /\ res = "none"
  /\ clock = 0
  /\ stopped = FALSE
  /\ rd = NoArgs
  /\ dev = NoDev
  /\ rpc = "off"
  /\ results = <<>>
  /\ remaining = 0
  /\ offset = 0
  /\ reqs = <<>>
  /\ probe_k = 0
  /\ ret = <<>>
  /\ last_read = NoRead
  /\ conns = {ConnId}
  /\ fpc = "off"
  /\ attempt = 0
  /\ fconnected = FALSE
  /\ waits = <<>>
  /\ tries = 0
  /\ okSeen = FALSE
  /\ mlock = NoHolder
  /\ wr \in WriteArgs
  /\ mem = [a \in 0..MemTop |->
              IF wr.type = "holding" THEN RegAt(a) ELSE IF BitAt(a) THEN 1 ELSE 0]
  /\ wpc = "call"

writeDone == <<client, sock, lock, pollVars, pc, hnd, mh, entry, op, clock, stopped,
               formVars, rd, dev, rpc, results, remaining, offset, probe_k>>

writeIdle == <<writeDone, reqs>>

(* lines 226/228: int(v), which the codec packs as an unsigned 16-bit    *)
(* word: a value outside 0..65535 raises in the codec.                   *)
FitsRegister(v) == v >= 0 /\ v <= 65535

(* line 230: bool(int(v)) *)
EncodeBit(v) == IF v # 0 THEN 1 ELSE 0

Encoded(type, v) == IF type = "holding" THEN v ELSE EncodeBit(v)

(* The request is one the device carries out: at least one value (a      *)
(* quantity of 0 is answered with an exception response), every          *)
(* register value packable.                                              *)
Accepted(w) ==
  /\ w.shape = "list"
  /\ Len(w.values) >= 1
  /\ w.type = "holding" => \A i \in 1..Len(w.values) : FitsRegister(w.values[i])

\* every address written gets the first value of the list
WriteIndex_First(w, a) == 1

(* lines 228/234: values[k] goes to address + k *)
WriteIndex(w, a) == a - w.address + 1

Store(m, w) ==
  [a \in DOMAIN m |->
     IF a >= w.address /\ a < w.address + Len(w.values)
     THEN Encoded(w.type, w.values[WriteIndex(w, a)])
     ELSE m[a]]

(* _single_read (lines 83-111) on the device's answer in full *)
ReadBack(type, a, n) ==
  IF type = "holding"
  THEN [i \in 1..n |-> mem[a + i - 1]]
  ELSE [i \in 1..Min(n, PaddedLen(n)) |-> IF mem[a + i - 1] # 0 THEN 1 ELSE 0]

(* lines 224-234: a list of one value goes out as write_register or      *)
(* write_coil, any other list as write_registers or write_coils          *)
WriteFn(w) ==
  IF w.type = "holding"
  THEN (IF Len(w.values) = 1 THEN "write_register" ELSE "write_registers")
  ELSE (IF Len(w.values) = 1 THEN "write_coil" ELSE "write_coils")

(* lines 220-239: the device carries the write out, write returns True *)
WtWriteOk ==
  /\ wpc = "call"
  /\ Accepted(wr)
  /\ reqs' = <<[fn |-> WriteFn(wr), addr |-> wr.address, n |-> Len(wr.values)]>>
  /\ mem' = Store(mem, wr)
  /\ res' = "True"
  /\ wpc' = "written"
  /\ UNCHANGED <<writeDone, connected, wr, ret, last_read>>

(* lines 224 and 230: len(values) and the iteration over values raise    *)
(* TypeError on a value that is no list, inside the try block, so lines  *)
(* 240-242 mark the connection disconnected; nothing is sent.            *)
WtWriteScalar ==
  /\ wpc = "call"
  /\ wr.shape = "scalar"
  /\ connected' = FALSE
  /\ res' = "TypeError"
  /\ wpc' = "failed"
  /\ UNCHANGED <<writeIdle, wr, mem, ret, last_read>>

(* lines 237-242: the codec raises, the device answers with an exception *)
(* response, or the transport fails                                      *)
WtWriteFault ==
  /\ wpc = "call"
  /\ wr.shape = "list"
  /\ connected' = FALSE
  /\ res' = "Exception"
  /\ wpc' = "failed"
  /\ UNCHANGED <<writeIdle, wr, mem, ret, last_read>>

(* read(type, address, len(values)), lines 144-165: count is within      *)
(* DEFAULT_MAX_READ, one request                                         *)
WtRead ==
  /\ wpc = "written"
  /\ Len(wr.values) <= DEFAULT_MAX_READ
  /\ LET vals == ReadBack(wr.type, wr.address, Len(wr.values))
     IN /\ ret' = vals
        /\ last_read' = [address |-> wr.address, count |-> Len(wr.values),
                         values |-> vals]
  /\ res' = "ok"
  /\ wpc' = "done"
  /\ UNCHANGED <<writeIdle, connected, wr, mem>>

(* lines 186-217: the read faults *)
WtReadFault ==
  /\ wpc = "written"
  /\ connected' = FALSE
  /\ res' = "ModbusIOException"
  /\ wpc' = "done"
  /\ UNCHANGED <<writeIdle, wr, mem, ret, last_read>>

NextWrite == WtWriteOk \/ WtWriteScalar \/ WtWriteFault \/ WtRead \/ WtReadFault

SpecWrite == InitWrite /\ [][NextWrite]_vars

(* ===================================================================== *)
(*   SpecWorker: one _worker loop (lines 249-263) from its start, with   *)
(*   the caller's connect and stop_poll beside it                        *)
(* ===================================================================== *)
(* start_poll(..., max_history = m) has returned on a new connection *)
InitWorker ==
  /\ connected = FALSE
  /\ client = 1
  /\ sock = [h \in Handles |-> "none"]
  /\ lock = NoHolder
  /\ poll_thread = 1
  /\ poll_stop = FALSE
  /\ poll_params \in 1..MaxHistoryArg
  /\ poll_history = <<>>
  /\ pc = [t \in Threads |-> IF t = Caller THEN "idle"
                              ELSE IF t = 1 THEN "check" ELSE "dead"]
  /\ hnd = [t \in Threads |-> NoHandle]
  /\ mh = [t \in Pollers |-> IF t = 1 THEN poll_params ELSE 0]
  /\ entry = [t \in Pollers |-> NoEntry]
  /\ op = [NoOp EXCEPT !.name = "start_poll", !.m = poll_params]
  /\ res = "ok"
  /\ clock = 0
  /\ stopped = FALSE
  /\ rd = NoArgs
  /\ dev = NoDev
  /\ rpc = "off"
  /\ results = <<>>
  /\ remaining = 0
  /\ offset = 0
  /\ reqs = <<>>
  /\ probe_k = 0
  /\ ret = <<>>
  /\ last_read = NoRead
  /\ conns = {ConnId}
  /\ fpc = "off"
  /\ attempt = 0
  /\ fconnected = FALSE
  /\ waits = <<>>
  /\ tries = 0
  /\ okSeen = FALSE
  /\ mlock = NoHolder
  /\ wr = NoWrite
  /\ mem = NoMem
  /\ wpc = "off"

(* connect(), by the caller or inside the worker's read *)
ConnectStep(t) ==
  \/ CnCloseOk(t) \/ CnCloseFault(t) \/ CnNew(t)
  \/ CnWaitOk(t) \/ CnWaitRefused(t) \/ CnRet(t)

(* the worker's read, lines 253 and 144-217 *)
WorkerRead(t) ==
  \/ AcquireHealthy(t) \/ AcquireProbe(t) \/ AcquireReconnect(t)
  \/ EcWaitOk(t) \/ EcWaitRefused(t) \/ IoOk(t) \/ IoFault(t)

NextWorker ==
  \/ \E t \in Pollers : PollStop(t) \/ PollGo(t) \/ PollAppend(t) \/ WorkerRead(t)
  \/ \E t \in Threads : ConnectStep(t)
  \/ CallConnect \/ CallStopPoll
  \/ SpSignal \/ SpNoThread \/ SpJoined \/ SpJoinTimeout

(* The worker is a thread of its own: a statement that needs no lock and *)
(* no socket (lines 250, 254-262) is executed once it is reached.        *)
WorkerFairness ==
  \A t \in Pollers : WF_vars(PollAppend(t)) /\ WF_vars(PollGo(t))

SpecWorker == InitWorker /\ [][NextWorker]_vars /\ WorkerFairness

(* ===================================================================== *)
(*   SpecStop: stop_poll and start_poll (lines 245-274) beside workers   *)
(*   that may stay blocked: the threads run, the socket calls need not   *)
(*   answer                                                              *)
(* ===================================================================== *)
NextStop ==
  \/ CallStopPoll \/ CallStartPoll \/ StStart
  \/ SpSignal \/ SpNoThread \/ SpJoined \/ SpJoinTimeout
  \/ \E t \in Pollers :
       \/ PollStop(t) \/ PollGo(t) \/ PollAppend(t)
       \/ AcquireHealthy(t) \/ AcquireReconnect(t) \/ IoOk(t) \/ IoFault(t)
       \/ ConnectStep(t)

(* Every thread is scheduled: the statements of stop_poll and the        *)
(* worker's statements that wait for nothing are executed once reached,  *)
(* and join(timeout=2) returns when its time is up.  Nothing is assumed  *)
(* of the socket calls (the CnWait, EcWait and Io steps): they may      *)
(* never answer.                                                         *)
StopFairness ==
  /\ WF_vars(SpSignal) /\ WF_vars(SpNoThread) /\ WF_vars(SpJoined)
  /\ WF_vars(SpJoinTimeout)
  /\ \A t \in Pollers :
       /\ WF_vars(PollStop(t)) /\ WF_vars(PollAppend(t))
       /\ WF_vars(AcquireHealthy(t) \/ AcquireReconnect(t))
       /\ WF_vars(CnCloseOk(t) \/ CnCloseFault(t)) /\ WF_vars(CnNew(t))
       /\ WF_vars(CnRet(t))

SpecStop == InitWorker /\ [][NextStop]_vars /\ StopFairness

(* ===================================================================== *)
(*   SpecReg: ModbusManager.remove (lines 299-303) on a connection that  *)
(*   the caller connects and gives workers with start_poll               *)
(* ===================================================================== *)
(* get(id), lines 295-297: the connection is found *)
Registered == ConnId \in conns

(* remove(id), lines 300-303, id in the map: popped under the manager's  *)
(* lock, then c.close(), which starts with stop_poll().  op.valid says   *)
(* the id was found.                                                     *)
CallRemove ==
  /\ Registered
  /\ Begin([NoOp EXCEPT !.name = "remove"], "sp_check")
  /\ conns' = conns \ {ConnId}
  /\ UNCHANGED <<readVars, writeVars, fpc, attempt, fconnected, waits, tries, okSeen, mlock,
                 connVars, lock, pollVars, hnd, mh, entry, clock, stopped>>

(* remove(id), id absent: pop gives None and nothing else is done *)
CallRemoveAbsent ==
  /\ ~Registered
  /\ pc[Caller] = "idle"
  /\ op' = [NoOp EXCEPT !.name = "remove", !.valid = FALSE]
  /\ res' = "ok"
  /\ UNCHANGED <<readVars, formVars, writeVars, connVars, lock, pollVars, pc, hnd, mh,
                 entry, clock, stopped>>

NextReg ==
  \/ CallStartPoll \/ StStart
  \/ CallRemove \/ CallRemoveAbsent \/ CallConnect
  \/ SpSignal \/ SpNoThread \/ SpJoined \/ SpJoinTimeout
  \/ ClCloseOk \/ ClCloseFault
  \/ \E t \in Pollers : PollStop(t) \/ PollGo(t) \/ PollAppend(t) \/ WorkerRead(t)
  \/ \E t \in Threads : ConnectStep(t)

SpecReg == Init /\ [][NextReg]_vars

(* ===================================================================== *)
(*   SpecMgr: the calls on the ModbusManager (lines 276-309), each under *)
(*   self._lock, with the connection's own calls that follow them and    *)
(*   the workers of the connection                                       *)
(* ===================================================================== *)
mgrIdle == <<readVars, writeVars, attempt, fconnected, waits, tries, okSeen,
             connVars, lock, pollVars, hnd, mh, entry, clock, stopped>>

(* `with self._lock:` of lines 282, 290, 296, 300: the lock is taken *)
MgrEnter(name) ==
  /\ Begin([NoOp EXCEPT !.name = name], "m_in")
  /\ mlock = NoHolder
  /\ mlock' = Caller
  /\ UNCHANGED <<mgrIdle, conns, fpc>>

(* create_connection is called once, for the connection of the model *)
CallCreate == fpc = "create" /\ MgrEnter("create")

CallGet == MgrEnter("get")

CallList == MgrEnter("list_connections")

CallMgrRemove == MgrEnter("remove")

\* the lock is kept for the connection's call that follows
MgrUnlock_Late == mlock

(* the end of the with block *)
MgrUnlock == NoHolder

(* lines 290-292: the connection is put in the map, the lock released,   *)
(* and conn.connect() called                                             *)
MgrCreated ==
  /\ pc[Caller] = "m_in" /\ op.name = "create"
  /\ conns' = conns \cup {ConnId}
  /\ mlock' = MgrUnlock
  /\ fpc' = "off"
  /\ op' = [NoOp EXCEPT !.name = "connect"]
  /\ pc' = [pc EXCEPT ![Caller] = "cn_close"]
  /\ UNCHANGED <<mgrIdle, res>>

(* lines 281-286 and 295-297: the map is read, the lock released *)
MgrGot ==
  /\ pc[Caller] = "m_in" /\ op.name \in {"get", "list_connections"}
  /\ mlock' = MgrUnlock
  /\ res' = IF Registered THEN "found" ELSE "None"
  /\ pc' = [pc EXCEPT ![Caller] = "idle"]
  /\ UNCHANGED <<mgrIdle, conns, fpc, op>>

(* lines 300-303: pop under the lock; the lock released; c.close() when  *)
(* the id was in the map                                                 *)
MgrPopped ==
  /\ pc[Caller] = "m_in" /\ op.name = "remove"
  /\ conns' = conns \ {ConnId}
  /\ mlock' = MgrUnlock
  /\ IF Registered
     THEN /\ pc' = [pc EXCEPT ![Caller] = "sp_check"]
          /\ UNCHANGED <<op, res>>
     ELSE /\ pc' = [pc EXCEPT ![Caller] = "idle"]
          /\ op' = [op EXCEPT !.valid = FALSE]
          /\ res' = "ok"
  /\ UNCHANGED <<mgrIdle, fpc>>

(* start_poll on the connection that get(id) gave *)
MgrStartPoll == Registered /\ CallStartPoll

NextMgr ==
  \/ CallCreate \/ CallGet \/ CallList \/ CallMgrRemove
  \/ MgrCreated \/ MgrGot \/ MgrPopped
  \/ MgrStartPoll \/ StStart
  \/ SpSignal \/ SpNoThread \/ SpJoined \/ SpJoinTimeout
  \/ ClCloseOk \/ ClCloseFault
  \/ \E t \in Pollers :
       \/ PollStop(t) \/ PollGo(t) \/ PollAppend(t)
       \/ AcquireHealthy(t) \/ AcquireReconnect(t) \/ IoOk(t) \/ IoFault(t)
  \/ \E t \in Threads : ConnectStep(t)

(* The thread that is inside a with block of the manager runs: the       *)
(* statements of lines 283-286, 291, 297 and 301 wait for nothing.       *)
MgrFairness == WF_vars(MgrCreated) /\ WF_vars(MgrGot) /\ WF_vars(MgrPopped)

SpecMgr == InitForm /\ [][NextMgr]_vars /\ MgrFairness

(* ===================================================================== *)
(*                               Claims                                  *)
(* ===================================================================== *)

(* thread t is inside the `with self._lock` block of read or write *)
InReadWrite(t) ==
  /\ pc[t] \in {"ec_wait", "cn_close", "cn_new", "cn_wait", "cn_ret", "io_wait"}
  /\ ~(t = Caller /\ op.name = "connect")

(* thread t has a socket call of read or write in progress *)
SocketRequest(t) == InReadWrite(t) /\ pc[t] \in {"ec_wait", "cn_wait", "io_wait"}

(* C1: register I/O on the connection is mutually exclusive: a thread    *)
(* inside read or write holds the lock from its first socket call to its *)
(* last, so the poller's read cycle and a manual read or write never     *)
(* have socket requests in progress at the same time.                    *)
C1_MutualExclusion ==
  /\ \A t \in Threads : InReadWrite(t) => lock = t
  /\ \A t, u \in Threads : SocketRequest(t) /\ SocketRequest(u) => t = u

(* the caller's request is in progress while a poller waits for the lock *)
C1_Witness ==
  /\ pc[Caller] = "io_wait"
  /\ \E t \in Pollers : pc[t] = "rd_lock"

(* C2: after any sequence of start_poll calls at most one poller loop of *)
(* the connection is running.                                            *)
C2_OnePoller == Cardinality({t \in Pollers : pc[t] # "dead"}) <= 1

(* C3: once stop_poll() has returned, nothing is appended to             *)
(* poll_history until start_poll is called again.                        *)
C3_NoAppendAfterStop == [][stopped => poll_history' = poll_history]_vars

(* C4: len(poll_history) <= max_history of the poll configuration in     *)
(* force, in every state.                                                *)
C4_HistoryBounded ==
  poll_params # NoParams => Len(poll_history) <= poll_params

(* The code never assigns None to self.client; the state nearest to      *)
(* "handle = null" is a client object that holds no socket.              *)
HandleCleared == sock[client] = "none"

(* C5: connect returns a boolean; True comes with connected = true, and  *)
(* False with the state (handle = null, connected = false).              *)
C5_ConnectContract ==
  [][(op.name = "connect" /\ pc[Caller] # "idle" /\ pc'[Caller] = "idle")
       => /\ res' \in {"True", "False"}
          /\ res' = "True" => connected'
          /\ res' = "False" => ~connected' /\ HandleCleared']_vars

(* C6: connecting with retries = N makes at most N+1 transport connect   *)
(* attempts, makes none after the first success, and waits               *)
(* retry_backoff * k before attempt k+1.  connect() itself (lines 59-68) *)
(* makes one attempt; the retries are the form's, with N = max_attempts  *)
(* and retry_backoff = backoff_base, attempts counted from the form's    *)
(* submission.                                                           *)
C6_BoundedRetries ==
  [][/\ tries' <= max_attempts + 1
     /\ okSeen => tries' = tries
     /\ (tries' = tries + 1 /\ tries >= 1)
          => waits # <<>> /\ waits[Len(waits)] = backoff_base * tries]_vars

(* C7: close() leaves connected = false and the handle cleared, also     *)
(* when the transport close faults.                                      *)
C7_CloseContract ==
  [][(op.name = "close" /\ pc[Caller] = "cl_close" /\ pc'[Caller] = "idle")
       => ~connected' /\ HandleCleared']_vars

(* C8: after close(), read(..., allow_reconnect=False) fails with        *)
(* ConnectionClosed (Python's ConnectionError), connected staying false. *)
C8_ReadAfterClose ==
  [][(pc[Caller] = "idle" /\ op.name = "close" /\ res = "ok"
        /\ op'.name = "read" /\ op'.kw = "False")
       => res' = "ConnectionError" /\ ~connected']_vars

(* C9: a fault that leaves read after a request was sent (an exception   *)
(* response, no response, a transport failure, an illegal address for    *)
(* which the probes found nothing) finds connected = false.              *)
C9_FaultDisconnects ==
  (rpc = "done" /\ res \in {"ModbusIOException", "Exception"} /\ reqs # <<>>)
    => ~connected

(* what the device holds at a .. a+n-1, as read returns it *)
Contents(type, a, n) ==
  [i \in 1..n |-> IF type \in RegisterTypes THEN RegAt(a + i - 1)
                  ELSE IF BitAt(a + i - 1) THEN 1 ELSE 0]

CeilDiv(a, b) == (a + b - 1) \div b

AnswersInFull == dev.mode = "full" /\ dev.illegal = {}

(* C10: with a device that answers every request in full, a read of a    *)
(* known register space that got past the connection check sends one     *)
(* request when count <= the maximum in force and ceil(count / maximum)  *)
(* requests otherwise, each of at most the maximum, at contiguous        *)
(* ascending addresses from address on, and returns the count values the *)
(* device holds at address .. address+count-1, in address order.         *)
C10_ChunkedRead ==
  (rpc = "done" /\ AnswersInFull /\ ArgsValid /\ rd.type # "other"
     /\ res # "ConnectionError")
    => LET M == MaxAllowed(rd)
           N == Len(reqs)
       IN /\ res = "ok"
          /\ N = IF rd.count <= M THEN 1 ELSE CeilDiv(rd.count, M)
          /\ reqs[1].addr = rd.address
          /\ \A i \in 1..N : reqs[i].n >= 1 /\ reqs[i].n <= M /\ ~reqs[i].probe
          /\ \A i \in 1..(N - 1) : reqs[i + 1].addr = reqs[i].addr + reqs[i].n
          /\ ret = Contents(rd.type, rd.address, rd.count)

(* a read of bits in chunks of unequal size has come back *)
C10_Witness ==
  /\ rpc = "done" /\ AnswersInFull /\ res = "ok"
  /\ rd.type = "coils" /\ rd.address = 1
  /\ Len(reqs) = 2 /\ reqs[1].n = 3 /\ reqs[2].n = 1

(* C11: a read with try_alternatives whose request hit an illegal        *)
(* address and whose probe of a neighbouring address was answered        *)
(* returns the values of the full count read from the probed address     *)
(* (tagged adjusted_from / adjusted_to).  rpc = "blocked" is the call    *)
(* after such a probe, with no step left to it.                          *)
C11_ProbeAdjusts ==
  rpc = "blocked"
    => /\ res = "ok"
       /\ ret = Contents(rd.type, reqs[Len(reqs)].addr, rd.count)
       /\ last_read.address = reqs[Len(reqs)].addr

(* C12: connect and close never close or replace the socket handle       *)
(* while another thread's read or write has a socket call in progress    *)
(* on the connection.                                                    *)
C12_HandleReplacedUnderLock ==
  [][\A t \in Threads :
       (SocketRequest(t) /\ pc'[t] = pc[t])
         => /\ client' = client
            /\ sock[hnd[t]] = "open" => sock'[hnd[t]] = "open"]_vars

OpenSockets == {h \in Handles : sock[h] = "open"}

(* C13: at most one socket of the connection is open in every state,     *)
(* and an open socket is the one self.client refers to.                  *)
C13_OneLiveSocket ==
  /\ Cardinality(OpenSockets) <= 1
  /\ \A h \in OpenSockets : h = client

(* C14: connected = true implies that the handle holds an open socket,   *)
(* in every state.                                                       *)
C14_ConnectedHasHandle == connected => sock[client] = "open"

Sorted(h) == \A i, j \in 1..Len(h) : i < j => h[i].ts <= h[j].ts

(* C15: poll_history is in chronological order (timestamps never         *)
(* decrease along it), and an append over max_history evicts the head.   *)
C15_Chronological ==
  [][/\ Sorted(poll_history')
     /\ poll_history' # poll_history
          => LET e == poll_history'[Len(poll_history')]
             IN \/ poll_history' = Append(poll_history, e)
                \/ poll_history' = Tail(Append(poll_history, e))]_vars

(* C17: a write against a register space other than holding and coils    *)
(* fails with UnsupportedOperation (Python's ValueError) and sends no     *)
(* write request.                                                         *)
C17_WriteReadOnlySpace ==
  [][/\ (op.name = "write" /\ ~op.valid /\ pc[Caller] # "idle"
           /\ pc'[Caller] = "idle") => res' = "ValueError"
     /\ ~(op'.name = "write" /\ ~op'.valid /\ pc'[Caller] = "io_wait")]_vars

(* C18 as stated: write(type, address, values) followed by               *)
(* read(type, address, len(values)) returns exactly values, for holding  *)
(* and coils.                                                            *)
C18_RoundTrip == (wpc = "done" /\ res = "ok") => ret = wr.values

Canonical(w) ==
  w.type = "coils" => \A i \in 1..Len(w.values) : w.values[i] \in {0, 1}

(* C18 amended: the round trip returns exactly values when the coil      *)
(* values written are 0 or 1 (any other value is written as 1).          *)
C18_RoundTripCanonical ==
  (wpc = "done" /\ res = "ok" /\ Canonical(wr)) => ret = wr.values

(* write(coils, a, [1,0,1]) then read(coils, a, 3) has returned [1,0,1] *)
C18_Witness ==
  /\ wpc = "done" /\ res = "ok"
  /\ wr.type = "coils" /\ wr.values = <<1, 0, 1>> /\ ret = <<1, 0, 1>>

(* C16: the worker turns every outcome of a cycle's read, faults         *)
(* included, into the entry it appends, and goes back to its wait; the   *)
(* loop ends only when the stop event is set; and after a failed cycle,  *)
(* unless a stop is signalled, a later cycle is attempted (within the    *)
(* MaxCycles cycles of the model).                                       *)
C16_FaultsAbsorbed ==
  /\ [][\A t \in Pollers :
          /\ (pc[t] # "dead" /\ pc'[t] = "dead") => poll_stop
          /\ (pc[t] = "append" /\ pc'[t] # "append")
               => /\ pc'[t] = "check"
                  /\ poll_history' # <<>>
                  /\ poll_history'[Len(poll_history')] = entry[t]]_vars
  /\ \A t \in Pollers :
       (pc[t] = "append" /\ entry[t].err)
         ~> (pc[t] = "rd_lock" \/ poll_stop \/ clock >= MaxCycles)

(* a cycle is being attempted after a failed cycle was recorded *)
C16_Witness ==
  \E t \in Pollers :
    /\ pc[t] = "rd_lock"
    /\ poll_history # <<>>
    /\ poll_history[Len(poll_history)].err

NoPollerRuns == \A t \in Pollers : pc[t] = "dead"

(* C19: once remove(id) has returned, get(id) finds nothing, no worker   *)
(* of the connection runs and connected = false; remove of an absent id  *)
(* raises nothing and changes nothing.                                   *)
C19_RemoveContract ==
  [][/\ (op.name = "remove" /\ pc[Caller] # "idle" /\ pc'[Caller] = "idle")
          => /\ res' = "ok"
             /\ ~Registered'
             /\ NoPollerRuns'
             /\ ~connected'
     /\ (pc[Caller] = "idle" /\ ~Registered /\ op'.name = "remove" /\ res' # res)
          => /\ res' = "ok"
             /\ UNCHANGED <<conns, connVars, lock, pollVars, pc>>]_vars

(* C20: in no state is the id absent from the registry while a worker of *)
(* the connection runs or a socket of it is open.                        *)
C20_ForgottenLast == ~Registered => NoPollerRuns /\ OpenSockets = {}

(* C21: create_connection registers the connection and returns it        *)
(* whatever its connect() gave: the connection is in the map from the    *)
(* registration on, connect() comes back with a boolean, and a failed    *)
(* one leaves connected = false.                                         *)
C21_CreateRegisters ==
  /\ fpc # "create" => Registered
  /\ (fpc = "eager" /\ pc[Caller] = "idle")
       => res \in {"True", "False"} /\ (res = "False" => ~connected)

(* create_connection has returned a connection whose connect() failed *)
C21_Witness ==
  /\ fpc = "loop" /\ attempt = 0 /\ res = "False"
  /\ Registered /\ ~connected

(* C23: in a chunked read, a sub-request answered with fewer items than  *)
(* it asked for ends the read at once: the call returns what it has      *)
(* gathered, raises nothing and leaves connected as it was.              *)
C23_ShortStops ==
  [][ ( /\ rpc = "chunk"
        /\ Len(reqs') = Len(reqs) + 1
        /\ rpc' = "chunk" \/ (rpc' = "done" /\ res' = "ok")
        /\ Len(results') - Len(results) < reqs'[Len(reqs')].n )
      => /\ rpc' = "done"
         /\ res' = "ok"
         /\ ret' = results'
         /\ Len(ret') < rd.count
         /\ connected' = connected
         /\ lock' = NoHolder ]_vars

(* a chunked read ended by a short answer to its second sub-request *)
C23_Witness ==
  /\ rpc = "done" /\ res = "ok" /\ connected
  /\ rd.count > MaxAllowed(rd)
  /\ Len(reqs) = 2
  /\ reqs[1].n + reqs[2].n <= rd.count
  /\ Len(ret) < reqs[1].n + reqs[2].n
  /\ Len(ret) > reqs[1].n

(* the addresses probing may try, in order: address+i, address-i for     *)
(* i = 1 .. alt_probe_range, without the negative ones                   *)
Candidates ==
  LET all == [i \in 1..(2 * rd.range) |->
                IF i % 2 = 1 THEN rd.address + (i + 1) \div 2
                ELSE rd.address - i \div 2]
      NonNegative(x) == x >= 0
  IN SelectSeq(all, NonNegative)

IsProbe(r) == r.probe

InRead(t) == InReadWrite(t) /\ (t = Caller => op.name = "read")

(* C25: a read that has to reconnect calls connect() once. When that     *)
(* fails the read ends with ConnectionError, sends no register request   *)
(* and connected is false; when it succeeds the register request goes    *)
(* out on the handle the reconnect installed, which is connected.        *)
C25_ReconnectOnce ==
  [][\A t \in Threads :
       (InRead(t) /\ pc[t] = "cn_ret" /\ pc'[t] # "cn_ret")
         => /\ pc'[t] \notin {"ec_wait", "cn_close", "cn_new", "cn_wait"}
            /\ pc'[t] = "io_wait"
                 => hnd'[t] = client' /\ sock'[hnd'[t]] = "open"
            /\ pc'[t] # "io_wait"
                 => /\ ~connected'
                    /\ t = Caller => res' = "ConnectionError"]_vars

(* C26: write takes a single value or a list of values. A single value   *)
(* or a list of one goes out as the single-register / single-coil write, *)
(* a list of two or more as the multi write, and the call returns True   *)
(* when the device accepts: so no call fails on the shape of its values. *)
C26_WriteDispatch ==
  /\ res # "TypeError"
  /\ wpc \in {"written", "done"}
       => /\ Len(reqs) = 1
          /\ Len(wr.values) = 1
               => reqs[1].fn = (IF wr.type = "holding" THEN "write_register"
                                ELSE "write_coil")
          /\ Len(wr.values) >= 2
               => reqs[1].fn = (IF wr.type = "holding" THEN "write_registers"
                                ELSE "write_coils")
  /\ wpc = "written" => res = "True"

(* a worker thread still running that stop_poll gave up waiting for:     *)
(* self._poll_thread no longer refers to it (line 272)                   *)
Detached(t) == t \in Pollers /\ pc[t] # "dead" /\ poll_thread # t

(* C27: a detached worker finds the stop signal still in force when its  *)
(* read in flight completes: back at the loop test it exits, having      *)
(* appended at most the one entry of that read, also when a new          *)
(* start_poll has followed in the meantime.                              *)
C27_DetachedExits ==
  [][\A t \in Pollers :
       (Detached(t) /\ pc[t] = "check" /\ pc'[t] # "check")
         => pc'[t] = "dead"]_vars

(* C29: a read or write that ends with a fault that is no I/O fault, the *)
(* ValueError of an argument check or of an unsupported type, leaves     *)
(* connected as it was.                                                  *)
C29_ValueErrorKeepsState ==
  [][(/\ op.name \in {"read", "write"}
      /\ pc[Caller] # "idle" /\ pc'[Caller] = "idle"
      /\ res' = "ValueError") => connected' = connected]_vars

(* C30: a thread holding the connection's lock never asks for it again,  *)
(* and a read that has returned or raised has released it.               *)
C30_LockReleased ==
  /\ rpc = "done" => lock = NoHolder
  /\ ~(rpc = "blocked" /\ lock = Caller)

InStopPoll == pc[Caller] \in {"sp_check", "sp_join"}

(* C28: stop_poll always returns, also when the worker stays blocked in  *)
(* a socket call or waiting for the lock: join gives up after its        *)
(* timeout.  With no live worker it returns in its first step, and the   *)
(* poll state is cleared whenever it returns.                            *)
C28_StopPollReturns ==
  /\ InStopPoll ~> ~InStopPoll
  /\ [][(InStopPoll /\ ~InStopPoll')
          => /\ poll_thread' = NoThread
             /\ ~poll_stop'
             /\ poll_params' = NoParams]_vars
  /\ [][(pc[Caller] = "sp_check" /\ ~Alive(poll_thread)
           /\ pc'[Caller] # "sp_check") => ~InStopPoll']_vars

(* stop_poll has returned although the worker is still inside a socket call *)
C28_Witness ==
  /\ pc[Caller] = "idle" /\ op.name = "stop_poll" /\ res = "ok"
  /\ poll_thread = NoThread
  /\ \E t \in Pollers : pc[t] \in {"cn_wait", "ec_wait", "io_wait"}

(* C22: no thread holds the manager's lock while it takes the            *)
(* connection's lock or is inside connect, close, read or write: the     *)
(* holder is at the map operation of its with block, so the lock is      *)
(* released whatever the connection's I/O is doing.                      *)
C22_RegistryLockShort ==
  /\ [](mlock # NoHolder
          => /\ mlock = Caller
             /\ pc[Caller] = "m_in"
             /\ lock # Caller
             /\ hnd[Caller] = NoHandle)
  /\ (mlock # NoHolder) ~> (mlock = NoHolder)

(* the manager's lock is held while a worker is inside a register        *)
(* request, holding the connection's lock                                *)
C22_Witness ==
  /\ mlock = Caller /\ op.name = "remove"
  /\ \E t \in Pollers : pc[t] = "io_wait" /\ lock = t

====
